---------------------------- MODULE Spec2Model ----------------------------
(***************************************************************************)
(* Model of backend/nodes/editor.py: the Editor node that compiles section *)
(* briefings into a report (compile_content), polishes it over a streamed  *)
(* transformation (content_sweep), derives product recommendations and     *)
(* reports progress through a websocket manager.                           *)
(*                                                                         *)
(* Text is a sequence of one-character strings.  One Editor instance       *)
(* (self.context) serves the coroutines run(state) of the runs in `active`;*)
(* `running` is the asyncio event loop: the coroutine that holds it runs   *)
(* until its next await.                                                    *)
(***************************************************************************)
EXTENDS Integers, Sequences, FiniteSets, TLC

VARIABLES
    ctx,      \* Editor.context, the instance attribute shared by all runs
    active,   \* the runs started on this Editor instance
    quiet,    \* runs whose collaborators all answer (no raise, no odd reply)
    running,  \* the coroutine holding the event loop, 0 when all are suspended
    pc,       \* each run's position in compile_briefings / edit_report / ...
    st,       \* each run's ResearchState dict
    st0,      \* each run's ResearchState as it was handed to run()
    loc,      \* each run's local variables
    sent,     \* each run's calls of websocket_manager.send_status_update
    calls     \* each run's calls of the generative model and of the catalog

vars == <<ctx, active, quiet, running, pc, st, st0, loc, sent, calls>>

Runs == {1, 2}

-----------------------------------------------------------------------------
(* Bounds *)

\* content-bearing fragments one streamed response delivers at most
MaxFrags == 2

-----------------------------------------------------------------------------
(* Text *)

\* the value of state.get(key) / message.content when there is none (None)
Absent == <<"<absent>">>

Whitespace == {" ", "\n"}

\* the characters of the flush test of content_sweep
Terminators == {".", "!", "?", "\n"}

\* the length a buffer must exceed to be flushed
MinChunkLen == 10

RECURSIVE LStrip(_)
LStrip(s) == IF s # <<>> /\ Head(s) \in Whitespace THEN LStrip(Tail(s)) ELSE s

RECURSIVE RStrip(_)
RStrip(s) ==
    IF s # <<>> /\ s[Len(s)] \in Whitespace THEN RStrip(SubSeq(s, 1, Len(s) - 1))
    ELSE s

\* str.strip()
Strip(s) == RStrip(LStrip(s))

\* truthiness of an optional text: None and "" are falsy
Truthy(s) == s # Absent /\ s # <<>>

\* sep.join(parts)
RECURSIVE Join(_, _)
Join(parts, sep) ==
    IF parts = <<>> THEN <<>>
    ELSE IF Len(parts) = 1 THEN parts[1]
    ELSE parts[1] \o sep \o Join(Tail(parts), sep)

\* "".join(parts)
Concat(parts) == Join(parts, <<>>)

\* any(char in buffer for char in ['.', '!', '?', '\n'])
HasTerminator(s) == \E i \in 1..Len(s) : s[i] \in Terminators


-----------------------------------------------------------------------------
(* The values a ResearchState holds *)

\* state.get(key) of a string-valued key that is not in the dict
NoStr == "<absent>"

\* briefing_keys, in the insertion order of the dict
Categories == <<"company", "industry", "financial", "news">>

CategorySet == {Categories[i] : i \in 1..Len(Categories)}

\* a JSON value as json.loads returns it: an array of items, or another type
JArray(items) == [type |-> "array", items |-> items]

JOther(t) == [type |-> t, items |-> <<>>]

\* the key product_recommendation is not in the dict
JAbsent == JOther("absent")

\* one element of a decoded array: a recommendation record, or something else
Rec(id, name) == [shape |-> "record", product_id |-> id, product_name |-> name]

NotARecord == [shape |-> "number", product_id |-> 0, product_name |-> ""]

\* state['editor']: not in the dict, a dict, or a value that is no dict
EditorAbsent == [kind |-> "absent", report |-> Absent]

EditorDict(r) == [kind |-> "dict", report |-> r]

EditorOther == [kind |-> "other", report |-> Absent]

-----------------------------------------------------------------------------
(* Inputs: the states handed to run() *)

BriefingText ==
    [c \in CategorySet |->
        CASE c = "company"   -> <<"c", "o">>
          [] c = "industry"  -> <<"i", "n", "d">>
          [] c = "financial" -> <<"f">>
          [] c = "news"      -> <<"n", "e", "w", "s">>]

NoBriefings == [c \in CategorySet |-> Absent]

BriefingInputs ==
    { NoBriefings,
      [NoBriefings EXCEPT !["company"] = <<>>],
      [NoBriefings EXCEPT !["news"] = <<" ">>],
      [NoBriefings EXCEPT !["company"] = BriefingText["company"],
                          !["financial"] = BriefingText["financial"]],
      BriefingText }

\* the profile keys of run r's state: all present, or all missing
ProfileInputs(r) ==
    { IF r = 1
        THEN [company |-> "Acme", industry |-> "Steel", hq_location |-> "Bandung"]
        ELSE [company |-> "Bolt", industry |-> "Retail", hq_location |-> "Jakarta"],
      [company |-> NoStr, industry |-> NoStr, hq_location |-> NoStr] }

\* websocket_manager and job_id: both there, no job id, no manager
NotifierInputs ==
    { [websocket_manager |-> TRUE,  job_id |-> TRUE],
      [websocket_manager |-> TRUE,  job_id |-> FALSE],
      [websocket_manager |-> FALSE, job_id |-> TRUE] }

\* state['references']: not in the dict, or a list of references
ReferenceInputs == {Absent, <<"ref1">>}

OldReport == <<"o", "l", "d">>

OldRecommendation == JArray(<<Rec(3, "Giro Korporasi")>>)

OldMessage == <<[kind |-> "earlier", category |-> "", chars |-> 0]>>

\* what an earlier node or an earlier pass of the editor left in the state
PriorInputs ==
    { [report |-> Absent, status |-> NoStr, editor |-> EditorAbsent,
       product_recommendation |-> JAbsent, has_messages |-> FALSE, messages |-> <<>>],
      [report |-> OldReport, status |-> "editor_complete", editor |-> EditorDict(OldReport),
       product_recommendation |-> OldRecommendation, has_messages |-> TRUE,
       messages |-> <<OldMessage>>],
      [report |-> OldReport, status |-> "researching", editor |-> EditorOther,
       product_recommendation |-> JAbsent, has_messages |-> TRUE,
       messages |-> <<OldMessage>>] }

MkState(prof, b, n, refs, prior) ==
    [company |-> prof.company, industry |-> prof.industry,
     hq_location |-> prof.hq_location,
     briefings |-> b, references |-> refs,
     websocket_manager |-> n.websocket_manager, job_id |-> n.job_id,
     report |-> prior.report, status |-> prior.status, editor |-> prior.editor,
     product_recommendation |-> prior.product_recommendation,
     has_messages |-> prior.has_messages, messages |-> prior.messages]

StateInputs(r) ==
    { MkState(prof, b, n, refs, prior) :
        prof \in ProfileInputs(r), b \in BriefingInputs, n \in NotifierInputs,
        refs \in ReferenceInputs, prior \in PriorInputs }

\* the state of a run that is never started
EmptyState ==
    MkState([company |-> NoStr, industry |-> NoStr, hq_location |-> NoStr],
            NoBriefings, [websocket_manager |-> FALSE, job_id |-> FALSE], Absent,
            [report |-> Absent, status |-> NoStr, editor |-> EditorAbsent,
             product_recommendation |-> JAbsent, has_messages |-> FALSE,
             messages |-> <<>>])

\* the states of two runs started together on one Editor
ConcurrentInputs(r) ==
    { MkState(prof, BriefingText, n, Absent, prior) :
        prof \in ProfileInputs(r),
        n \in {[websocket_manager |-> TRUE, job_id |-> TRUE],
               [websocket_manager |-> FALSE, job_id |-> TRUE]},
        prior \in {p \in PriorInputs : p.report = Absent} }

\* the context __init__ sets
UnknownContext ==
    [company |-> "Unknown Company", industry |-> "Unknown", hq_location |-> "Unknown"]

\* no response of the recommendation call was read
NoReply == [syntax |-> "none", value |-> JAbsent]

NoRet == [kind |-> "none", report |-> Absent, product_recommendation |-> JAbsent]

NoLocals ==
    [company |-> NoStr, context |-> UnknownContext, msg |-> <<>>,
     individual_briefings |-> NoBriefings,
     er_company |-> NoStr,
     combined_content |-> Absent, reference_text |-> Absent,
     compile_outcome |-> "none", edited_report |-> Absent,
     content |-> Absent, accumulated_text |-> Absent, buffer |-> Absent,
     nfrags |-> 0, stream_end |-> "none", sweep_ret |-> Absent,
     final_report |-> Absent,
     all_products |-> {}, raw |-> NoReply, rec_outcome |-> "none",
     product_recommendation |-> JAbsent,
     ret |-> NoRet]

InitCommon ==
    /\ ctx = UnknownContext
    /\ running = 0
    /\ pc = [r \in Runs |-> "start"]
    /\ st0 = st
    /\ loc = [r \in Runs |-> NoLocals]
    /\ sent = [r \in Runs |-> <<>>]
    /\ calls = [r \in Runs |-> <<>>]

\* one run, whose collaborators may fail
Init ==
    /\ active = {1}
    /\ quiet = {}
    /\ st \in {[r \in Runs |-> IF r = 1 THEN s ELSE EmptyState] : s \in StateInputs(1)}
    /\ InitCommon

\* two runs on the same Editor, whose collaborators all answer
InitTwo ==
    /\ active = {1, 2}
    /\ quiet = {1, 2}
    /\ st \in {[r \in Runs |-> IF r = 1 THEN a ELSE b] :
                 a \in ConcurrentInputs(1), b \in ConcurrentInputs(2)}
    /\ InitCommon

-----------------------------------------------------------------------------
(* The event loop and the notifier *)

\* run r may take its next step: it holds the event loop, or nobody does
CanStep(r) == r \in active /\ running \in {0, r}

\* state.get(key, default)
Get(v, default) == IF v = NoStr THEN default ELSE v

\* both walrus tests: state.get('websocket_manager') and state.get('job_id')
HasNotifier(r) == st[r].websocket_manager /\ st[r].job_id

\* one call send_status_update(job_id, status, message, result); `raised` tells
\* whether the call raised
Note(status, substep) ==
    [status |-> status, substep |-> substep, chunk |-> Absent, report |-> Absent,
     company |-> NoStr, product_recommendation |-> JAbsent, raised |-> FALSE]

\* what a call of the notifier can do
SendOutcomes(r) == IF r \in quiet THEN {"ok"} ELSE {"ok", "raise"}

\* `if websocket_manager := ...: if job_id := ...: await send_status_update(...)`
\* followed by okpc, or by failpc when the call raises
Send(r, note, okpc, failpc) ==
    IF HasNotifier(r)
      THEN \E o \in SendOutcomes(r) :
             /\ sent' = [sent EXCEPT ![r] = Append(@, [note EXCEPT !.raised = (o = "raise")])]
             /\ pc' = [pc EXCEPT ![r] = IF o = "raise" THEN failpc ELSE okpc]
             /\ running' = 0
      ELSE /\ sent' = sent
           /\ pc' = [pc EXCEPT ![r] = okpc]
           /\ running' = r

-----------------------------------------------------------------------------
(* compile_briefings *)

MsgLine(kind, category, chars) == [kind |-> kind, category |-> category, chars |-> chars]

\* the loop over briefing_keys: the dict of the briefings found
CollectBriefings(state) ==
    [c \in CategorySet |-> IF Truthy(state.briefings[c]) THEN state.briefings[c] ELSE Absent]

\* BriefingLines whose found lines carry no character count
BriefingLinesNoCount(state) ==
    [i \in 1..Len(Categories) |->
        IF Truthy(state.briefings[Categories[i]])
          THEN MsgLine("found", Categories[i], 0)
          ELSE MsgLine("not_available", Categories[i], 0)]

\* the lines the loop appends to msg, one per category
BriefingLines(state) ==
    [i \in 1..Len(Categories) |->
        IF Truthy(state.briefings[Categories[i]])
          THEN MsgLine("found", Categories[i], Len(state.briefings[Categories[i]]))
          ELSE MsgLine("not_available", Categories[i], 0)]

WarningLine == MsgLine("no_briefings_warning", "", 0)

\* company = state.get('company', ...); self.context = {...}
Begin(r) ==
    /\ CanStep(r) /\ pc[r] = "start"
    /\ ctx' = [company |-> Get(st[r].company, "Unknown Company"),
               industry |-> Get(st[r].industry, "Unknown"),
               hq_location |-> Get(st[r].hq_location, "Unknown")]
    /\ loc' = [loc EXCEPT ![r].company = Get(st[r].company, "Unknown Company")]
    /\ pc' = [pc EXCEPT ![r] = "init_notify"]
    /\ running' = r
    /\ UNCHANGED <<active, quiet, st, st0, sent, calls>>

\* the initialization notification; nothing catches what it raises
NotifyInitialization(r) ==
    /\ CanStep(r) /\ pc[r] = "init_notify"
    /\ Send(r, Note("processing", "initialization"), "collect_notify", "raised")
    /\ UNCHANGED <<ctx, active, quiet, st, st0, loc, calls>>

\* context = {...}; msg = [...]; the collecting_briefings notification
NotifyCollecting(r) ==
    /\ CanStep(r) /\ pc[r] = "collect_notify"
    /\ loc' = [loc EXCEPT
                 ![r].context = [company |-> loc[r].company,
                                 industry |-> Get(st[r].industry, "Unknown"),
                                 hq_location |-> Get(st[r].hq_location, "Unknown")],
                 ![r].msg = <<MsgLine("compiling", loc[r].company, 0)>>]
    /\ Send(r, Note("processing", "collecting_briefings"), "collect", "raised")
    /\ UNCHANGED <<ctx, active, quiet, st, st0, calls>>

\* Collect without the test `if not individual_briefings`
CollectNoSkip(r) ==
    /\ CanStep(r) /\ pc[r] = "collect"
    /\ loc' = [loc EXCEPT ![r].individual_briefings = CollectBriefings(st[r]),
                          ![r].msg = @ \o BriefingLines(st[r])]
    /\ pc' = [pc EXCEPT ![r] = "edit_report"]
    /\ running' = r
    /\ UNCHANGED <<ctx, active, quiet, st, st0, sent, calls>>

\* the loop over briefing_keys and the test `if not individual_briefings`
Collect(r) ==
    /\ CanStep(r) /\ pc[r] = "collect"
    /\ LET found == CollectBriefings(st[r])
           none == \A c \in CategorySet : found[c] = Absent
           msg == loc[r].msg \o BriefingLines(st[r])
       IN /\ loc' = [loc EXCEPT ![r].individual_briefings = found,
                                ![r].msg = IF none THEN Append(msg, WarningLine) ELSE msg]
          /\ pc' = [pc EXCEPT ![r] = IF none THEN "append_message" ELSE "edit_report"]
    /\ running' = r
    /\ UNCHANGED <<ctx, active, quiet, st, st0, sent, calls>>

\* `if 'editor' not in state or not isinstance(state['editor'], dict)`, then
\* state['editor']['report'] = report
MirrorReport(editor, report) == EditorDict(report)

\* state.setdefault('messages', []).append(AIMessage(...))
AppendMessage(state, msg) ==
    [state EXCEPT !.has_messages = TRUE, !.messages = Append(@, msg)]

\* RunMirror that leaves state['editor'] as compile_briefings left it
RunMirrorSkip(state) == state

\* run, after compile_briefings: state['report'] mirrored under state['editor']
RunMirror(state) ==
    IF state.report # Absent
      THEN [state EXCEPT !.editor = MirrorReport(@, state.report)]
      ELSE state

\* the end of compile_briefings: the message appended, the state returned
Finish(r) ==
    /\ CanStep(r) /\ pc[r] = "append_message"
    /\ st' = [st EXCEPT ![r] = AppendMessage(@, loc[r].msg)]
    /\ pc' = [pc EXCEPT ![r] = "run_mirror"]
    /\ running' = r
    /\ UNCHANGED <<ctx, active, quiet, st0, loc, sent, calls>>

\* the rest of run: the report mirrored, the state returned
RunReturn(r) ==
    /\ CanStep(r) /\ pc[r] = "run_mirror"
    /\ st' = [st EXCEPT ![r] = RunMirror(@)]
    /\ pc' = [pc EXCEPT ![r] = "done"]
    /\ running' = 0
    /\ UNCHANGED <<ctx, active, quiet, st0, loc, sent, calls>>

-----------------------------------------------------------------------------
(* The collaborators: what they can answer *)

ParagraphBreak == <<"\n", "\n">>

\* format_references_section(...): the formatted block
ReferenceText == <<"#", "R", "e", "f">>

\* what format_references_section can do: return a block, or raise (Absent)
FormatterOutcomes(r) == IF r \in quiet THEN {ReferenceText} ELSE {ReferenceText, Absent}

\* message.content of the compilation response: None, or a text
DraftText == <<"D", "r", "a", "f", "t", ".", "\n">>

CompileContents(r) == IF r \in quiet THEN {DraftText} ELSE {DraftText, <<>>, Absent}

\* the call chat.completions.create(...) itself: it returns, or it raises
CallOutcomes(r) == IF r \in quiet THEN {"ok"} ELSE {"ok", "raise"}

\* delta.content of the chunks of the streamed response
Fragments ==
    { <<"a", "a", "a", "a", "a", "a", "a", "a", "a", "a", ".">>,
      <<"b", "b", "b", "b", "b", "b", "b", "b", "b", "b", "b">>,
      <<"c", "!">>,
      <<" ">> }

\* the one fragment of a response that is streamed as expected
NominalFragments == { <<"a", "a", "a", "a", "a", "a", "a", "a", "a", "a", ".">> }

StreamFragments(r) == IF r \in quiet THEN NominalFragments ELSE Fragments

\* the rows of the table products that are not soft-deleted
Investasi == [id |-> 1, name |-> "bjb Kredit Investasi"]

ModalKerja == [id |-> 2, name |-> "bjb Kredit Modal Kerja"]

Giro == [id |-> 3, name |-> "Giro Korporasi"]

CatalogSnapshots == { {Investasi, ModalKerja, Giro} }

RecOf(p) == Rec(p.id, p.name)

\* message.content of the recommendation response, as the text it is: JSON
\* text of some value, or text that is not JSON
JsonText(v) == [syntax |-> "json", value |-> v]

NotJson == [syntax |-> "garbage", value |-> JOther("null")]

RawResponses ==
    { NotJson,
      JsonText(JOther("object")),
      JsonText(JArray(<<NotARecord>>)),
      JsonText(JArray(<<>>)),
      JsonText(JArray(<<RecOf(Investasi), RecOf(ModalKerja)>>)),
      JsonText(JArray(<<RecOf(Investasi), RecOf(Giro)>>)),
      JsonText(JArray(<<Rec(99, "bjb Kredit Modal Kerja")>>)) }

NominalResponses == { JsonText(JArray(<<RecOf(Giro)>>)) }

\* json.loads(text): the decoded value, or ValueError
JsonLoads(raw) == [ok |-> raw.syntax = "json", value |-> raw.value]

-----------------------------------------------------------------------------
(* edit_report: compilation *)

\* one call of the generative model or of the catalog, with the profile its
\* prompt was built from
Call(kind, profile) ==
    [kind |-> kind, company |-> profile.company, industry |-> profile.industry,
     hq_location |-> profile.hq_location]

RetEmpty == [kind |-> "empty", report |-> Absent, product_recommendation |-> JAbsent]

RetPair(report, rec) == [kind |-> "pair", report |-> report, product_recommendation |-> rec]

\* the last call of send_status_update by run r raised in this step
SendRaised(r) ==
    /\ Len(sent'[r]) > Len(sent[r])
    /\ sent'[r][Len(sent'[r])].raised

\* the return value of edit_report after a notification: what raises inside its
\* try reaches `except Exception: return ""`
AfterSend(r, ret) == IF SendRaised(r) THEN RetEmpty ELSE ret

\* company = self.context["company"]; the compilation notification
NotifyCompilation(r) ==
    /\ CanStep(r) /\ pc[r] = "edit_report"
    /\ Send(r, Note("processing", "compilation"), "compile_content", "append_message")
    /\ loc' = [loc EXCEPT ![r].er_company = ctx.company,
                          ![r].ret = AfterSend(r, @)]
    /\ UNCHANGED <<ctx, active, quiet, st, st0, calls>>

\* "\n\n".join(content for content in briefings.values())
CombinedContent(briefings) ==
    Join(SelectSeq([i \in 1..Len(Categories) |-> briefings[Categories[i]]],
                   LAMBDA t : t # Absent),
         ParagraphBreak)

\* compile_content up to the await of the generative call: the combined content,
\* the reference block (format_references_section is not inside the try of
\* compile_content: what it raises reaches the except of edit_report), the
\* prompt built from self.context
CompileCall(r) ==
    /\ CanStep(r) /\ pc[r] = "compile_content"
    /\ LET combined == CombinedContent(loc[r].individual_briefings)
       IN IF st[r].references # Absent /\ st[r].references # <<>>
            THEN \E ref \in FormatterOutcomes(r) :
                   IF ref = Absent
                     THEN /\ loc' = [loc EXCEPT ![r].combined_content = combined,
                                                ![r].compile_outcome = "raised",
                                                ![r].ret = RetEmpty]
                          /\ pc' = [pc EXCEPT ![r] = "append_message"]
                          /\ running' = r
                          /\ calls' = calls
                     ELSE /\ loc' = [loc EXCEPT ![r].combined_content = combined,
                                                ![r].reference_text = ref]
                          /\ pc' = [pc EXCEPT ![r] = "compile_response"]
                          /\ running' = 0
                          /\ calls' = [calls EXCEPT ![r] = Append(@, Call("compile", ctx))]
            ELSE /\ loc' = [loc EXCEPT ![r].combined_content = combined,
                                       ![r].reference_text = <<>>]
                 /\ pc' = [pc EXCEPT ![r] = "compile_response"]
                 /\ running' = 0
                 /\ calls' = [calls EXCEPT ![r] = Append(@, Call("compile", ctx))]
    /\ UNCHANGED <<ctx, active, quiet, st, st0, sent>>

\* the try of compile_content: the stripped content with the reference block
\* appended, or in the except branch the stripped combined content
CompileResult(outcome, content, reference_text, combined) ==
    IF outcome = "raise" \/ content = Absent
      THEN Strip(combined)
      ELSE IF reference_text # <<>>
             THEN Strip(content) \o ParagraphBreak \o reference_text
             ELSE Strip(content)

\* CompileResponse without the test `if not edited_report`
CompileResponseNoTest(r) ==
    /\ CanStep(r) /\ pc[r] = "compile_response"
    /\ \E o \in CallOutcomes(r), content \in CompileContents(r) :
         loc' = [loc EXCEPT ![r].compile_outcome = "returned",
                            ![r].edited_report =
                                CompileResult(o, content, loc[r].reference_text,
                                              loc[r].combined_content)]
    /\ pc' = [pc EXCEPT ![r] = "cleanup_notify"]
    /\ running' = r
    /\ UNCHANGED <<ctx, active, quiet, st, st0, sent, calls>>

\* the response of the compilation call, and `if not edited_report: return ""`
CompileResponse(r) ==
    /\ CanStep(r) /\ pc[r] = "compile_response"
    /\ \E o \in CallOutcomes(r), content \in CompileContents(r) :
         LET edited == CompileResult(o, content, loc[r].reference_text,
                                     loc[r].combined_content)
         IN IF edited = <<>>
              THEN /\ loc' = [loc EXCEPT ![r].compile_outcome = "returned",
                                         ![r].edited_report = edited,
                                         ![r].ret = RetEmpty]
                   /\ pc' = [pc EXCEPT ![r] = "append_message"]
              ELSE /\ loc' = [loc EXCEPT ![r].compile_outcome = "returned",
                                         ![r].edited_report = edited]
                   /\ pc' = [pc EXCEPT ![r] = "cleanup_notify"]
    /\ running' = r
    /\ UNCHANGED <<ctx, active, quiet, st, st0, sent, calls>>

\* NotifyCleanup that announces the substep format
NotifyCleanupAsFormat(r) ==
    /\ CanStep(r) /\ pc[r] = "cleanup_notify"
    /\ Send(r, Note("processing", "format"), "format_notify", "append_message")
    /\ loc' = [loc EXCEPT ![r].ret = AfterSend(r, @)]
    /\ UNCHANGED <<ctx, active, quiet, st, st0, calls>>

\* the cleanup notification
NotifyCleanup(r) ==
    /\ CanStep(r) /\ pc[r] = "cleanup_notify"
    /\ Send(r, Note("processing", "cleanup"), "format_notify", "append_message")
    /\ loc' = [loc EXCEPT ![r].ret = AfterSend(r, @)]
    /\ UNCHANGED <<ctx, active, quiet, st, st0, calls>>

NotifyFormat(r) ==
    /\ CanStep(r) /\ pc[r] = "format_notify"
    /\ Send(r, Note("processing", "format"), "content_sweep", "append_message")
    /\ loc' = [loc EXCEPT ![r].ret = AfterSend(r, @)]
    /\ UNCHANGED <<ctx, active, quiet, st, st0, calls>>

-----------------------------------------------------------------------------
(* content_sweep *)

\* a report_chunk notification carrying the buffer
ChunkNote(buffer) == [Note("report_chunk", "") EXCEPT !.chunk = buffer]

\* ShouldFlush without the test of the length
ShouldFlushNoLength(buffer) == HasTerminator(buffer)

\* any(char in buffer for char in [...]) and len(buffer) > 10
ShouldFlush(buffer) == HasTerminator(buffer) /\ Len(buffer) > MinChunkLen

\* how a streamed response can end: a chunk with finish_reason "stop", or the
\* end of the stream with no such chunk (a chunk with another finish_reason
\* carries no text and is followed by the end)
StreamEnds(r) == IF r \in quiet THEN {"stop"} ELSE {"stop", "exhausted"}

\* content_sweep up to the await of the streamed call: the prompt built from
\* self.context, then the response object or the except branch
SweepCall(r) ==
    /\ CanStep(r) /\ pc[r] = "content_sweep"
    /\ calls' = [calls EXCEPT ![r] = Append(@, Call("sweep", ctx))]
    /\ \E o \in CallOutcomes(r) :
         IF o = "raise"
           THEN /\ loc' = [loc EXCEPT ![r].content = loc[r].edited_report,
                                      ![r].stream_end = "call_raised",
                                      ![r].sweep_ret = Strip(loc[r].edited_report)]
                /\ pc' = [pc EXCEPT ![r] = "sweep_return"]
           ELSE /\ loc' = [loc EXCEPT ![r].content = loc[r].edited_report,
                                      ![r].accumulated_text = <<>>,
                                      ![r].buffer = <<>>]
                /\ pc' = [pc EXCEPT ![r] = "stream"]
    /\ running' = 0
    /\ UNCHANGED <<ctx, active, quiet, st, st0, sent>>

\* one iteration of `async for chunk in response` on a chunk with text: both
\* accumulators grow, and the buffer is sent and cleared when the test holds;
\* a send that raises leaves the loop for the except branch of content_sweep
StreamFragment(r, chunk_text) ==
    LET accumulated == loc[r].accumulated_text \o chunk_text
        buffer == loc[r].buffer \o chunk_text
        grown == [loc EXCEPT ![r].accumulated_text = accumulated,
                             ![r].buffer = buffer,
                             ![r].nfrags = @ + 1]
    IN IF ShouldFlush(buffer) /\ HasNotifier(r)
         THEN \E o \in SendOutcomes(r) :
                /\ sent' = [sent EXCEPT ![r] =
                              Append(@, [ChunkNote(buffer) EXCEPT !.raised = (o = "raise")])]
                /\ IF o = "raise"
                     THEN /\ loc' = [grown EXCEPT ![r].stream_end = "send_raised",
                                                  ![r].sweep_ret = Strip(loc[r].content)]
                          /\ pc' = [pc EXCEPT ![r] = "sweep_return"]
                     ELSE /\ loc' = [grown EXCEPT ![r].buffer = <<>>]
                          /\ pc' = pc
         ELSE /\ sent' = sent
              /\ loc' = IF ShouldFlush(buffer) THEN [grown EXCEPT ![r].buffer = <<>>]
                                                ELSE grown
              /\ pc' = pc

\* the branch `if chunk.choices[0].finish_reason == "stop"`: the buffer is sent
\* if there is a manager, a buffer and a job id; then break and return
StreamStop(r) ==
    IF st[r].websocket_manager /\ loc[r].buffer # <<>> /\ st[r].job_id
      THEN \E o \in SendOutcomes(r) :
             /\ sent' = [sent EXCEPT ![r] =
                           Append(@, [ChunkNote(loc[r].buffer) EXCEPT !.raised = (o = "raise")])]
             /\ IF o = "raise"
                  THEN loc' = [loc EXCEPT ![r].stream_end = "send_raised",
                                          ![r].sweep_ret = Strip(loc[r].content)]
                  ELSE loc' = [loc EXCEPT ![r].stream_end = "stop",
                                          ![r].sweep_ret = Strip(loc[r].accumulated_text)]
      ELSE /\ sent' = sent
           /\ loc' = [loc EXCEPT ![r].stream_end = "stop",
                                 ![r].sweep_ret = Strip(loc[r].accumulated_text)]

\* the loop ends without a "stop" chunk: return (accumulated_text or "").strip()
StreamExhausted(r, how) ==
    /\ sent' = sent
    /\ loc' = [loc EXCEPT ![r].stream_end = how,
                          ![r].sweep_ret = Strip(loc[r].accumulated_text)]

\* StreamRaises that returns what was accumulated when the stream raised
StreamRaisesPartial(r) ==
    /\ sent' = sent
    /\ loc' = [loc EXCEPT ![r].stream_end = "stream_raised",
                          ![r].sweep_ret = Strip(loc[r].accumulated_text)]

\* the stream raises: return (content or "").strip()
StreamRaises(r) ==
    /\ sent' = sent
    /\ loc' = [loc EXCEPT ![r].stream_end = "stream_raised",
                          ![r].sweep_ret = Strip(loc[r].content)]

\* the next event of the streamed response
Stream(r) ==
    /\ CanStep(r) /\ pc[r] = "stream"
    /\ \/ \E chunk_text \in StreamFragments(r) :
            /\ loc[r].nfrags < MaxFrags
            /\ StreamFragment(r, chunk_text)
       \/ \* a chunk without text and without finish_reason "stop"
          /\ sent' = sent /\ loc' = loc /\ pc' = pc
       \/ \E how \in StreamEnds(r) :
            /\ IF how = "stop" THEN StreamStop(r) ELSE StreamExhausted(r, how)
            /\ pc' = [pc EXCEPT ![r] = "sweep_return"]
       \/ /\ r \notin quiet
          /\ StreamRaises(r)
          /\ pc' = [pc EXCEPT ![r] = "sweep_return"]
    /\ running' = 0
    /\ UNCHANGED <<ctx, active, quiet, st, st0, calls>>

-----------------------------------------------------------------------------
(* edit_report: the report written, the recommendation, the last notification *)

\* state['report'], state['status'] and state['editor']['report'] are written
WriteReport(state, final_report) ==
    [state EXCEPT !.report = final_report,
                  !.status = "editor_complete",
                  !.editor = MirrorReport(@, final_report)]

\* final_report = final_report or ""; `if not final_report.strip(): return ""`;
\* else the report is written into the state
SweepReturn(r) ==
    /\ CanStep(r) /\ pc[r] = "sweep_return"
    /\ LET final_report == loc[r].sweep_ret
       IN IF Strip(final_report) = <<>>
            THEN /\ loc' = [loc EXCEPT ![r].final_report = final_report,
                                       ![r].ret = RetEmpty]
                 /\ st' = st
                 /\ pc' = [pc EXCEPT ![r] = "append_message"]
            ELSE /\ loc' = [loc EXCEPT ![r].final_report = final_report]
                 /\ st' = [st EXCEPT ![r] = WriteReport(@, final_report)]
                 /\ pc' = [pc EXCEPT ![r] = "recommend"]
    /\ running' = r
    /\ UNCHANGED <<ctx, active, quiet, st0, sent, calls>>

\* what the catalog query can do: return the rows, or raise
CatalogOutcomes(r) == IF r \in quiet THEN {"ok"} ELSE {"ok", "raise"}

\* product_recommendation = []; the catalog query (blocking, no await); then
\* generate_product_recommendation_json up to the await of its call, the
\* prompt built from the local context
CatalogQuery(r) ==
    /\ CanStep(r) /\ pc[r] = "recommend"
    /\ \E o \in CatalogOutcomes(r), rows \in CatalogSnapshots :
         IF o = "raise"
           THEN /\ loc' = [loc EXCEPT ![r].product_recommendation = JArray(<<>>),
                                      ![r].rec_outcome = "catalog_failed"]
                /\ st' = [st EXCEPT ![r].product_recommendation = JArray(<<>>)]
                /\ calls' = [calls EXCEPT ![r] = Append(@, Call("catalog", loc[r].context))]
                /\ pc' = [pc EXCEPT ![r] = "final_notify"]
                /\ running' = r
           ELSE /\ loc' = [loc EXCEPT ![r].product_recommendation = JArray(<<>>),
                                      ![r].all_products = rows]
                /\ st' = st
                /\ calls' = [calls EXCEPT ![r] =
                               @ \o <<Call("catalog", loc[r].context),
                                      Call("recommend", loc[r].context)>>]
                /\ pc' = [pc EXCEPT ![r] = "recommend_response"]
                /\ running' = 0
    /\ UNCHANGED <<ctx, active, quiet, st0, sent>>

\* what the recommendation call can answer: raise, content None, or a text
RecommendationReplies(r) ==
    IF r \in quiet THEN [outcome : {"ok"}, raw : NominalResponses]
    ELSE [outcome : {"ok"}, raw : RawResponses]
         \cup [outcome : {"raise", "none"}, raw : {NotJson}]

\* StoreRecommendation with an except branch that leaves the state as it was
StoreRecommendationNoFallback(state, reply) ==
    IF reply.outcome = "ok" /\ JsonLoads(reply.raw).ok
      THEN [state EXCEPT !.product_recommendation = JsonLoads(reply.raw).value]
      ELSE state

\* json.loads of the response and state['product_recommendation'] = ..., or the
\* except branch: state['product_recommendation'] = []
StoreRecommendation(state, reply) ==
    IF reply.outcome = "ok" /\ JsonLoads(reply.raw).ok
      THEN [state EXCEPT !.product_recommendation = JsonLoads(reply.raw).value]
      ELSE [state EXCEPT !.product_recommendation = JArray(<<>>)]

\* the response of the recommendation call
RecommendResponse(r) ==
    /\ CanStep(r) /\ pc[r] = "recommend_response"
    /\ \E reply \in RecommendationReplies(r) :
         /\ st' = [st EXCEPT ![r] = StoreRecommendation(@, reply)]
         /\ loc' = [loc EXCEPT
                      ![r].raw = IF reply.outcome = "ok" THEN reply.raw ELSE NoReply,
                      ![r].rec_outcome =
                          IF reply.outcome # "ok" THEN "call_failed"
                          ELSE IF JsonLoads(reply.raw).ok THEN "parsed" ELSE "parse_failed",
                      ![r].product_recommendation =
                          IF reply.outcome = "ok" /\ JsonLoads(reply.raw).ok
                            THEN JsonLoads(reply.raw).value
                            ELSE @]
    /\ pc' = [pc EXCEPT ![r] = "final_notify"]
    /\ running' = r
    /\ UNCHANGED <<ctx, active, quiet, st0, sent, calls>>

\* CompleteNote that sends the initial value of product_recommendation
CompleteNoteInitialRec(report, company, rec) ==
    [Note("editor_complete", "") EXCEPT !.report = report, !.company = company,
                                        !.product_recommendation = JArray(<<>>)]

\* the editor_complete notification
CompleteNote(report, company, rec) ==
    [Note("editor_complete", "") EXCEPT !.report = report, !.company = company,
                                        !.product_recommendation = rec]

\* the last notification, then `return final_report, product_recommendation`
NotifyComplete(r) ==
    /\ CanStep(r) /\ pc[r] = "final_notify"
    /\ Send(r, CompleteNote(loc[r].final_report, loc[r].er_company,
                            loc[r].product_recommendation),
            "append_message", "append_message")
    /\ loc' = [loc EXCEPT ![r].ret = AfterSend(r, RetPair(loc[r].final_report,
                                                          loc[r].product_recommendation))]
    /\ UNCHANGED <<ctx, active, quiet, st, st0, calls>>

-----------------------------------------------------------------------------

Next ==
    \E r \in Runs :
        \/ Begin(r)
        \/ NotifyInitialization(r)
        \/ NotifyCollecting(r)
        \/ Collect(r)
        \/ NotifyCompilation(r)
        \/ CompileCall(r)
        \/ CompileResponse(r)
        \/ NotifyCleanup(r)
        \/ NotifyFormat(r)
        \/ SweepCall(r)
        \/ Stream(r)
        \/ SweepReturn(r)
        \/ CatalogQuery(r)
        \/ RecommendResponse(r)
        \/ NotifyComplete(r)
        \/ Finish(r)
        \/ RunReturn(r)

Spec == Init /\ [][Next]_vars

SpecTwo == InitTwo /\ [][Next]_vars

-----------------------------------------------------------------------------
(* Properties *)

\* the payloads of the report_chunk notifications of run r, in emission order
Chunks(r) ==
    LET notes == SelectSeq(sent[r], LAMBDA n : n.status = "report_chunk")
    IN [i \in 1..Len(notes) |-> notes[i].chunk]

\* the places of the editor_complete notifications of run r
Completions(r) == {i \in 1..Len(sent[r]) : sent[r][i].status = "editor_complete"}

\* content_sweep of run r consumed its stream to the end
StreamConsumed(r) == loc[r].stream_end \in {"stop", "exhausted"}

\* a report_chunk call of run r raised
ChunkSendRaised(r) ==
    \E i \in 1..Len(sent[r]) : sent[r][i].status = "report_chunk" /\ sent[r][i].raised

\* the recommendation step of run r failed: catalog, call or parsing
RecFailed(r) == loc[r].rec_outcome \in {"catalog_failed", "call_failed", "parse_failed"}

\* edit_report of run r is past its last notification
PastComplete(r) == pc[r] \in {"append_message", "run_mirror", "done"}

\* the profile run r's state held when run() was called
OwnProfile(r) ==
    [company |-> Get(st0[r].company, "Unknown Company"),
     industry |-> Get(st0[r].industry, "Unknown"),
     hq_location |-> Get(st0[r].hq_location, "Unknown")]

\* C1: with a notifier and a job id, the report_chunk payloads concatenated in
\* emission order (the final flush included) equal the text content_sweep
\* accumulated, and are the text it returned (read up to the strip() of the
\* return statement).
C1_ChunksReconstructText ==
    \A r \in active :
        (HasNotifier(r) /\ StreamConsumed(r)) =>
            /\ Concat(Chunks(r)) = loc[r].accumulated_text
            /\ Strip(Concat(Chunks(r))) = loc[r].sweep_ret

\* C2: a send that raises while a chunk is emitted is swallowed: the stream is
\* still consumed to its end and content_sweep returns the accumulated text.
C2_ChunkSendFailureSwallowed ==
    \A r \in active :
        (ChunkSendRaised(r) /\ loc[r].sweep_ret # Absent) =>
            /\ StreamConsumed(r)
            /\ loc[r].sweep_ret = Strip(loc[r].accumulated_text)

\* C3 as stated: after a failure of the catalog query, of the recommendation
\* call or of the parsing, state.report is the final report,
\* state.product_recommendation is the empty list, and the editor_complete
\* notification is emitted with that report.
C3_Original ==
    \A r \in active :
        RecFailed(r) =>
            /\ Strip(loc[r].final_report) # <<>>
            /\ st[r].report = loc[r].final_report
            /\ st[r].product_recommendation = JArray(<<>>)
            /\ PastComplete(r) =>
                 \E i \in Completions(r) : sent[r][i].report = st[r].report

\* C3 as amended: the same, the notification being emitted when the state holds
\* a websocket manager and a job id.
C3_ReportSurvivesRecommendationFailure ==
    \A r \in active :
        RecFailed(r) =>
            /\ Strip(loc[r].final_report) # <<>>
            /\ st[r].report = loc[r].final_report
            /\ st[r].product_recommendation = JArray(<<>>)
            /\ (PastComplete(r) /\ HasNotifier(r)) =>
                 \E i \in Completions(r) : sent[r][i].report = st[r].report

C3_Witness ==
    \E r \in active :
        /\ pc[r] = "done" /\ HasNotifier(r)
        /\ loc[r].rec_outcome = "parse_failed"
        /\ st0[r].product_recommendation # JArray(<<>>)
        /\ st[r].product_recommendation = JArray(<<>>)
        /\ \E i \in Completions(r) : sent[r][i].report = st[r].report

\* C4: run(state) never raises, whatever fails, a notifier send at any point
\* included.
C4_RunNeverRaises == \A r \in active : pc[r] # "raised"

\* C5: the compile prompt, the sweep prompt and the terminal notification of
\* each of two interleaved runs carry the profile of that run's own state.
C5_RunsUseOwnProfile ==
    \A r \in active :
        /\ \A i \in 1..Len(calls[r]) :
             calls[r][i].kind \in {"compile", "sweep"} =>
                 /\ calls[r][i].company = OwnProfile(r).company
                 /\ calls[r][i].industry = OwnProfile(r).industry
                 /\ calls[r][i].hq_location = OwnProfile(r).hq_location
        /\ \A i \in Completions(r) : sent[r][i].company = OwnProfile(r).company

\* C6: with at least one category of non-empty text, compile_content does not
\* raise and returns non-empty text, whatever the generative call and the
\* reference formatting do.
C6_CompileReturnsText ==
    \A r \in active :
        (/\ loc[r].compile_outcome # "none"
         /\ \E c \in CategorySet :
              /\ loc[r].individual_briefings[c] # Absent
              /\ Strip(loc[r].individual_briefings[c]) # <<>>) =>
            /\ loc[r].compile_outcome = "returned"
            /\ loc[r].edited_report # <<>>

\* every briefing key of the state is missing or holds ""
AllBriefingsEmpty(state) == \A c \in CategorySet : ~Truthy(state.briefings[c])

\* C7: when all four briefings are absent or empty, run does not write report
\* and appends exactly one message, which carries the no-briefings warning.
C7_EmptyBriefingsOneWarning ==
    \A r \in active :
        (AllBriefingsEmpty(st0[r]) /\ pc[r] \in {"done", "raised"}) =>
            /\ st[r].report = st0[r].report
            /\ Len(st[r].messages) = Len(st0[r].messages) + 1
            /\ \E i \in 1..Len(st[r].messages[Len(st[r].messages)]) :
                 st[r].messages[Len(st[r].messages)][i] = WarningLine

\* C8: editor_complete is emitted at most once per run, and only once
\* state.report is written and state.product_recommendation is set; its report
\* and product_recommendation are those of the state.
C8_CompleteOnceAfterResolved ==
    \A r \in active :
        /\ Cardinality(Completions(r)) <= 1
        /\ \A i \in Completions(r) :
             /\ loc[r].rec_outcome # "none"
             /\ st[r].status = "editor_complete"
             /\ st[r].report = loc[r].final_report
             /\ st[r].product_recommendation # JAbsent
             /\ sent[r][i].report = st[r].report
             /\ sent[r][i].product_recommendation = st[r].product_recommendation

C8_Witness ==
    \E r \in active :
        /\ pc[r] = "done"
        /\ loc[r].rec_outcome = "parsed"
        /\ st[r].product_recommendation.items # <<>>
        /\ st0[r].report # st[r].report
        /\ \E i \in Completions(r) :
             sent[r][i].product_recommendation = st[r].product_recommendation

\* C9: every product_id of the stored recommendation list is the id of a row
\* of the catalog snapshot queried in the run.
C9_RecommendedIdsInCatalog ==
    \A r \in active :
        loc[r].rec_outcome # "none" =>
            \A i \in 1..Len(st[r].product_recommendation.items) :
                LET item == st[r].product_recommendation.items[i]
                IN item.shape = "record" =>
                     item.product_id \in {p.id : p \in loc[r].all_products}

\* the text is the JSON of an array whose elements are all records
IsRecordArrayText(raw) ==
    /\ JsonLoads(raw).ok
    /\ JsonLoads(raw).value.type = "array"
    /\ \A i \in 1..Len(JsonLoads(raw).value.items) :
         JsonLoads(raw).value.items[i].shape = "record"

\* C10: when the raw response is not the JSON of an array of records,
\* state.product_recommendation is the empty list (and nothing escapes).
C10_MalformedResponseYieldsEmpty ==
    \A r \in active :
        (loc[r].rec_outcome \in {"parsed", "parse_failed"}
            /\ ~IsRecordArrayText(loc[r].raw)) =>
            /\ st[r].product_recommendation = JArray(<<>>)
            /\ pc[r] # "raised"

\* the stored recommendation list of run r names the product
Recommends(r, name) ==
    \E i \in 1..Len(st[r].product_recommendation.items) :
        /\ st[r].product_recommendation.items[i].shape = "record"
        /\ st[r].product_recommendation.items[i].product_name = name

\* C11: in every stored recommendation list 'bjb Kredit Investasi' is present
\* if and only if 'bjb Kredit Modal Kerja' is.
C11_CreditPair ==
    \A r \in active :
        loc[r].rec_outcome # "none" =>
            (Recommends(r, "bjb Kredit Investasi")
                <=> Recommends(r, "bjb Kredit Modal Kerja"))

\* run r made a call of this kind (compile, sweep, catalog, recommend)
Called(r, kind) == \E i \in 1..Len(calls[r]) : calls[r][i].kind = kind

\* compile_content of run r returned ""
CompiledEmpty(r) == loc[r].compile_outcome = "returned" /\ loc[r].edited_report = <<>>

\* C12: when compile_content returns empty text, the sweep is not invoked, the
\* catalog is not queried, edit_report returns "", and report, status and
\* product_recommendation of the state stay as they were before the run.
C12_EmptyCompilationStops ==
    \A r \in active :
        CompiledEmpty(r) =>
            /\ ~Called(r, "sweep")
            /\ ~Called(r, "catalog")
            /\ loc[r].stream_end = "none"
            /\ loc[r].ret = RetEmpty
            /\ pc[r] # "raised"
            /\ st[r].report = st0[r].report
            /\ st[r].status = st0[r].status
            /\ st[r].product_recommendation = st0[r].product_recommendation

C12_Witness ==
    \E r \in active :
        /\ pc[r] = "done"
        /\ CompiledEmpty(r)
        /\ Called(r, "compile")
        /\ st0[r].report = OldReport
        /\ st[r].report = OldReport

\* content_sweep of run r returned a text that is not blank
SweepYieldedText(r) == loc[r].sweep_ret # Absent /\ Strip(loc[r].sweep_ret) # <<>>

\* C13: after a run whose sweep yields a final text that is not blank, the
\* returned state has report equal to that text, status "editor_complete" and
\* editor.report equal to report; and whenever run returns with report present,
\* state.editor is a mapping whose report equals state.report.
C13_ReportMirrored ==
    \A r \in active :
        pc[r] = "done" =>
            /\ SweepYieldedText(r) =>
                 /\ st[r].report = loc[r].sweep_ret
                 /\ st[r].status = "editor_complete"
                 /\ st[r].editor.kind = "dict"
                 /\ st[r].editor.report = st[r].report
            /\ st[r].report # Absent =>
                 /\ st[r].editor.kind = "dict"
                 /\ st[r].editor.report = st[r].report

C13_Witness ==
    \E r \in active :
        /\ pc[r] = "done"
        /\ SweepYieldedText(r)
        /\ st0[r].editor = EditorOther
        /\ st0[r].status = "researching"
        /\ st[r].report = loc[r].sweep_ret
        /\ st[r].editor = EditorDict(loc[r].sweep_ret)

\* C14: when the fragment stream is consumed to its end while the buffer is not
\* empty, that buffer is the last report_chunk emitted before content_sweep
\* returns (read for a state that holds a notifier and a job id).
C14_ResidualBufferFlushed ==
    \A r \in active :
        (HasNotifier(r) /\ StreamConsumed(r) /\ loc[r].buffer # <<>>) =>
            /\ Len(Chunks(r)) > 0
            /\ Chunks(r)[Len(Chunks(r))] = loc[r].buffer

\* the streamed transformation of run r failed: at the call, or in the stream
SweepFailed(r) == loc[r].stream_end \in {"call_raised", "stream_raised"}

\* C16 as stated: if the streamed transformation fails, at the call or in the
\* stream, content_sweep does not raise and returns the draft unchanged, and
\* the draft becomes state.report.
C16_Original ==
    \A r \in active :
        SweepFailed(r) =>
            /\ pc[r] # "raised"
            /\ loc[r].sweep_ret = loc[r].content
            /\ pc[r] # "sweep_return" => st[r].report = loc[r].content

\* C16: if the streamed transformation fails, at the call or in the stream
\* after chunks were emitted, content_sweep does not raise and returns the
\* draft with its leading and trailing whitespace removed, and that text
\* becomes state.report.
C16_SweepFailureReturnsTrimmedDraft ==
    \A r \in active :
        SweepFailed(r) =>
            /\ pc[r] # "raised"
            /\ loc[r].sweep_ret = Strip(loc[r].content)
            /\ pc[r] # "sweep_return" => st[r].report = Strip(loc[r].content)

C16_Witness ==
    \E r \in active :
        /\ loc[r].stream_end = "stream_raised"
        /\ Len(Chunks(r)) > 0
        /\ loc[r].accumulated_text # <<>>
        /\ pc[r] = "done"
        /\ loc[r].content # Strip(loc[r].content)
        /\ st[r].report = Strip(loc[r].content)

\* the buffer holds one of '.', '!', '?', newline and is longer than 10
Due(b) == (\E i \in 1..Len(b) : b[i] \in Terminators) /\ Len(b) > MinChunkLen

\* this step of run r appends a fragment in the streaming loop
AppendsFragment(r) == pc[r] = "stream" /\ loc'[r].nfrags = loc[r].nfrags + 1

\* the buffer of run r once the fragment of this step is appended
Appended(r) ==
    loc[r].buffer \o SubSeq(loc'[r].accumulated_text,
                            Len(loc[r].accumulated_text) + 1,
                            Len(loc'[r].accumulated_text))

\* this step of run r emits exactly the chunk b
EmitsChunk(r, b) ==
    /\ Len(sent'[r]) = Len(sent[r]) + 1
    /\ SubSeq(sent'[r], 1, Len(sent[r])) = sent[r]
    /\ sent'[r][Len(sent'[r])].status = "report_chunk"
    /\ sent'[r][Len(sent'[r])].chunk = b

\* the buffer is cleared exactly when it is due; the loop goes on unless the
\* emission raised
ClearedWhenDue(r) ==
    pc'[r] = "stream" =>
        loc'[r].buffer = IF Due(Appended(r)) THEN <<>> ELSE Appended(r)

\* every chunk but a final flush is due, and no buffer carried over is
NonFinalChunksDue(r) ==
    /\ \A i \in 1..Len(Chunks(r)) :
         (i < Len(Chunks(r)) \/ loc[r].stream_end \notin {"stop", "send_raised"})
             => Due(Chunks(r)[i])
    /\ pc[r] = "stream" => ~Due(loc[r].buffer)

\* C15 as stated: after each fragment is appended the buffer is emitted as one
\* chunk and cleared exactly when it holds a terminator and is longer than 10;
\* hence every non-final chunk is due and no buffer carried over is.
C15_Original ==
    /\ [](\A r \in active : NonFinalChunksDue(r))
    /\ [][\A r \in active :
            AppendsFragment(r) =>
                /\ IF Due(Appended(r))
                     THEN EmitsChunk(r, Appended(r))
                     ELSE sent'[r] = sent[r]
                /\ ClearedWhenDue(r)]_vars

\* C15: after each fragment is appended the buffer is cleared exactly when it
\* holds one of '.', '!', '?', newline and is longer than 10, and at that
\* moment it is emitted as one chunk when the state holds a websocket manager
\* and a job id (and not emitted otherwise); hence every non-final chunk
\* holds a terminator and is longer than 10, and the buffer carried over to the
\* next fragment never both holds a terminator and exceeds length 10.
C15_FlushExactlyWhenDue ==
    /\ [](\A r \in active : NonFinalChunksDue(r))
    /\ [][\A r \in active :
            AppendsFragment(r) =>
                /\ IF Due(Appended(r)) /\ HasNotifier(r)
                     THEN EmitsChunk(r, Appended(r))
                     ELSE sent'[r] = sent[r]
                /\ ClearedWhenDue(r)]_vars

C15_Witness ==
    \E r \in active :
        /\ pc[r] = "stream"
        /\ Len(Chunks(r)) > 0
        /\ Due(Chunks(r)[1])
        /\ loc[r].buffer # <<>>
        /\ HasTerminator(loc[r].buffer)

\* the step a notification announces: its substep, or its status for chunks
\* and for the completion
StepOf(n) == IF n.status = "processing" THEN n.substep ELSE n.status

\* the place of a step in the order the claim fixes
Rank(n) ==
    CASE StepOf(n) = "initialization"       -> 1
      [] StepOf(n) = "collecting_briefings" -> 2
      [] StepOf(n) = "compilation"          -> 3
      [] StepOf(n) = "cleanup"              -> 4
      [] StepOf(n) = "format"               -> 5
      [] StepOf(n) = "report_chunk"         -> 6
      [] StepOf(n) = "editor_complete"      -> 7
      [] OTHER                              -> 0

\* C17: within one run the notifications are emitted in the order
\* initialization, collecting_briefings, compilation, cleanup, format, then
\* report_chunk zero or more times, then editor_complete; each of the six step
\* notifications at most once; no report_chunk before format or after
\* editor_complete.
C17_NotificationOrder ==
    \A r \in active :
        /\ \A i \in 1..Len(sent[r]) : Rank(sent[r][i]) \in 1..7
        /\ \A i, j \in 1..Len(sent[r]) :
             i < j => /\ Rank(sent[r][i]) <= Rank(sent[r][j])
                      /\ Rank(sent[r][i]) = Rank(sent[r][j])
                            => StepOf(sent[r][i]) = "report_chunk"
        /\ \A j \in 1..Len(sent[r]) :
             \A k \in 1..5 :
                 k < Rank(sent[r][j]) => \E i \in 1..(j - 1) : Rank(sent[r][i]) = k

C17_Witness ==
    \E r \in active :
        /\ pc[r] = "done"
        /\ Len(sent[r]) = 8
        /\ Len(Chunks(r)) = 2
        /\ StepOf(sent[r][1]) = "initialization"
        /\ StepOf(sent[r][5]) = "format"
        /\ StepOf(sent[r][8]) = "editor_complete"

\* run r is past the loop that collects the briefings, and collected none
CollectedNone(r) ==
    /\ pc[r] \notin {"start", "init_notify", "collect_notify", "collect", "raised"}
    /\ AllBriefingsEmpty(st[r])

LastMessage(r) == st[r].messages[Len(st[r].messages)]

\* the line of the summary message m about the i-th category says that the
\* briefing was found, with its character count, or that it is not available
CategoryLine(r, m, i) ==
    LET c == Categories[i]
        line == m[i + 1]
    IN /\ line.category = c
       /\ \/ /\ line.kind = "found"
             /\ Truthy(st0[r].briefings[c])
             /\ line.chars = Len(st0[r].briefings[c])
          \/ /\ line.kind = "not_available"
             /\ ~Truthy(st0[r].briefings[c])

\* C19: every run that returns appends exactly one summary message to
\* state.messages, whatever the outcome, and leaves the messages already there
\* unchanged and in order; for each of the four categories the message says
\* that it was found, with its character count, or that it is not available.
C19_OneSummaryMessage ==
    \A r \in active :
        pc[r] = "done" =>
            /\ st[r].has_messages
            /\ Len(st[r].messages) = Len(st0[r].messages) + 1
            /\ SubSeq(st[r].messages, 1, Len(st0[r].messages)) = st0[r].messages
            /\ Len(LastMessage(r)) >= Len(Categories) + 1
            /\ LastMessage(r)[1].kind = "compiling"
            /\ \A i \in 1..Len(Categories) : CategoryLine(r, LastMessage(r), i)

C19_Witness ==
    \E r \in active :
        /\ pc[r] = "done"
        /\ st0[r].messages = <<OldMessage>>
        /\ st[r].messages[1] = OldMessage
        /\ loc[r].ret = RetEmpty
        /\ \E i, j \in 1..Len(Categories) :
             /\ LastMessage(r)[i + 1].kind = "found"
             /\ LastMessage(r)[i + 1].chars > 0
             /\ LastMessage(r)[j + 1].kind = "not_available"

\* edit_report of run r wrote state['report'] and state['status']
WroteReport(r) ==
    loc[r].final_report # Absent /\ Strip(loc[r].final_report) # <<>>

\* C20: edit_report returns "" if and only if it did not write report and
\* status into the state during the run; a call that wrote state['report']
\* returns the pair (final_report, product_recommendation), also when a later
\* step such as the last notification fails.
C20_EmptyReturnIffNothingWritten ==
    \A r \in active :
        loc[r].ret # NoRet =>
            /\ loc[r].ret = RetEmpty <=> ~WroteReport(r)
            /\ WroteReport(r) =>
                 loc[r].ret = RetPair(loc[r].final_report, st[r].product_recommendation)

=============================================================================
